---- MODULE Spec2Model ----
(***************************************************************************)
(* Model of src/ingest_google.py: the ingestion run (main), its provider   *)
(* collaborators (get_places, place_details, get_yelp_business,            *)
(* download_photo, scrape_website) and the store helpers (upsert_business, *)
(* insert_reviews, insert_deal, insert_extras).                            *)
(*                                                                         *)
(* Python values: a dict is a function whose DOMAIN is the set of keys it  *)
(* carries; a list is a sequence; None is the string "None"; numbers are   *)
(* carried as their decimal text, so that a missing number and the number  *)
(* 0 are different values that are both falsy.                             *)
(***************************************************************************)
EXTENDS Naturals, Sequences, FiniteSets, TLC

VARIABLES
    pc,              \* position of main: which statement runs next
    type_idx,        \* index into PLACE_TYPES of the category being visited
    total_inserted,  \* main: total_inserted
    seen,            \* main: seen
    res,             \* main: res, with the results the for loop has yet to take
    item,            \* main: item
    attempt,         \* place_details: the loop variable i
    details,         \* main: details
    photo_path,      \* main: photo_path
    yelp_data,       \* main: yelp_data
    biz,             \* main: biz
    business_id,     \* main: business_id
    db,              \* the store as the open transaction of conn sees it
    committed,       \* the store as it is once the connection is gone
    files,           \* the paths that exist under public/images
    calls,           \* history: the calls made so far, for the claims
    failure,         \* the call that raised, once main has been aborted
    log              \* history of the specifications that call one function
                     \* at a time: the calls so far, arguments and results

vars == <<pc, type_idx, total_inserted, seen, res, item, attempt,
          details, photo_path, yelp_data, biz, business_id, db, committed,
          files, calls, failure, log>>

--------------------------------------------------------------------------
(* Python values *)

None == "None"

EmptyDict == [k \in {} |-> None]

\* d.get(k) for a key that holds text or a number
Get(d, k) == IF k \in DOMAIN d THEN d[k] ELSE None

\* d.get(k) for a key that holds a list; an absent list and [] are both falsy
\* and the code only ever tests them for truth
GetList(d, k) == IF k \in DOMAIN d THEN d[k] ELSE <<>>

\* d.get(k, {}) for a key that holds a dict
GetDict(d, k) == IF k \in DOMAIN d THEN d[k] ELSE EmptyDict

\* truth value of text: None and "" are falsy
TruthyStr(v) == v \notin {None, ""}

\* truth value of a number: None and 0 are falsy
TruthyNum(v) == v \notin {None, "0"}

\* a or b
OrStr(a, b) == IF TruthyStr(a) THEN a ELSE b

OrNum(a, b) == IF TruthyNum(a) THEN a ELSE b

OrList(a, b) == IF a # <<>> THEN a ELSE b

\* json.dumps of an opening_hours blob
JsonDumps(v) ==
    IF Get(v, "open_now") = "true" THEN "{\"open_now\": true}"
    ELSE IF Get(v, "open_now") = "false" THEN "{\"open_now\": false}"
    ELSE "{}"

\* the first n elements of a list: s[:n]
Take(s, n) == SubSeq(s, 1, IF Len(s) < n THEN Len(s) ELSE n)

--------------------------------------------------------------------------
(* Program constants *)

\* main compares total_inserted with the literal 100 (lines 304, 376, 380);
\* the model runs the same comparisons against a smaller target so that the
\* truncation is reached within the bounds of the search.
TargetCount == 2

\* place_details: retries=3
Retries == 3

\* insert_reviews: reviews[:5]
ReviewCap == 5

\* scrape_website: [...][:3]
MenuLinkCap == 3

\* insert_deal: timedelta(days=30)
DealDays == 30

\* insert_deal: date.today(), as a day number
Today == 20000

\* the successful status of requests.get
StatusOk == 200

Sentinel == "N/A"

Placeholder == "public/images/placeholder.jpg"

\* download_photo: f"public/images/{place_id}.jpg"
PhotoFile(place_id) == "public/images/" \o place_id \o ".jpg"

AllPlaceTypes ==
    << "restaurant", "cafe", "store", "gym", "hospital", "school",
       "bank", "beauty_salon", "book_store", "real_estate_agency",
       "lawyer", "electronics_store", "travel_agency", "pet_store",
       "supermarket", "clothing_store", "pharmacy" >>

\* the run visits a prefix of the source's category list
NumCategories == 2

PLACE_TYPES == SubSeq(AllPlaceTypes, 1, NumCategories)

--------------------------------------------------------------------------
(* scrape_website *)

\* "menu" in href.lower(), over the hrefs the model's pages carry
ContainsMenu(href) == href \in {"/menu", "/MENU.pdf", "/our-Menus", "/menu/lunch"}

\* resp = [raises, status_code, meta, hrefs]: the outcome of requests.get and
\* of the parse; meta is the content of the description meta tag, None
\* without the tag.  A dict-valued None is the empty dict: both are falsy.
scrape_website(website_url, resp) ==
    IF ~TruthyStr(website_url) \/ website_url = Sentinel THEN EmptyDict
    ELSE IF resp.raises THEN EmptyDict
    ELSE IF resp.status_code # StatusOk THEN EmptyDict
    ELSE [ meta_description |-> IF TruthyStr(resp.meta) THEN resp.meta ELSE None,
           menu_links |-> Take(SelectSeq(resp.hrefs, ContainsMenu), MenuLinkCap) ]

--------------------------------------------------------------------------
(* get_yelp_business *)

\* search = [raises, businesses], info = [raises, json]: the outcomes of the
\* two requests.  A hit without "id" raises KeyError inside the try block.
\* get_yelp_business without the test of the key at line 129
get_yelp_business_NoKeyTest(yelp_key, search, info) ==
    IF search.raises THEN EmptyDict
    ELSE IF search.businesses = <<>> THEN EmptyDict
    ELSE IF "id" \notin DOMAIN search.businesses[1] THEN EmptyDict
    ELSE IF info.raises THEN EmptyDict
    ELSE LET hit == search.businesses[1]
             d   == info.json
         IN [ id |-> hit["id"],
              name |-> Get(hit, "name"),
              url |-> Get(d, "url"),
              display_phone |-> OrStr(Get(d, "display_phone"), Get(hit, "display_phone")),
              price |-> Get(d, "price"),
              location |-> GetDict(d, "location"),
              external_website |->
                  OrStr(Get(GetDict(d, "attributes"), "business_website"),
                        Get(d, "website")) ]

get_yelp_business(yelp_key, search, info) ==
    IF ~TruthyStr(yelp_key) THEN EmptyDict
    ELSE IF search.raises THEN EmptyDict
    ELSE IF search.businesses = <<>> THEN EmptyDict
    ELSE IF "id" \notin DOMAIN search.businesses[1] THEN EmptyDict
    ELSE IF info.raises THEN EmptyDict
    ELSE LET hit == search.businesses[1]
             d   == info.json
         IN [ id |-> hit["id"],
              name |-> Get(hit, "name"),
              url |-> Get(d, "url"),
              display_phone |-> OrStr(Get(d, "display_phone"), Get(hit, "display_phone")),
              price |-> Get(d, "price"),
              location |-> GetDict(d, "location"),
              external_website |->
                  OrStr(Get(GetDict(d, "attributes"), "business_website"),
                        Get(d, "website")) ]

--------------------------------------------------------------------------
(* download_photo *)

\* download_photo without the test of photo_ref: the request is always made
download_photo_NoRefCheck(fs, photo_ref, place_id, resp) ==
    LET file_path == PhotoFile(place_id) IN
    IF file_path \in fs
    THEN [files |-> fs, path |-> file_path, raised |-> FALSE, fetched |-> FALSE]
    ELSE IF resp.raises
    THEN [files |-> fs, path |-> None, raised |-> TRUE, fetched |-> TRUE]
    ELSE IF resp.status_code = StatusOk /\ resp.stream_raises
    THEN [files |-> fs \cup {file_path}, path |-> None,
          raised |-> TRUE, fetched |-> TRUE]
    ELSE IF resp.status_code = StatusOk
    THEN [files |-> fs \cup {file_path}, path |-> file_path,
          raised |-> FALSE, fetched |-> TRUE]
    ELSE [files |-> fs, path |-> Placeholder, raised |-> FALSE, fetched |-> TRUE]

\* download_photo without the os.path.exists test of lines 178-179
download_photo_NoCacheTest(fs, photo_ref, place_id, resp) ==
    LET file_path == PhotoFile(place_id) IN
    IF ~TruthyStr(photo_ref)
    THEN [files |-> fs \cup {Placeholder}, path |-> Placeholder,
          raised |-> FALSE, fetched |-> FALSE]
    ELSE IF resp.raises
    THEN [files |-> fs, path |-> None, raised |-> TRUE, fetched |-> TRUE]
    ELSE IF resp.status_code = StatusOk /\ resp.stream_raises
    THEN [files |-> fs \cup {file_path}, path |-> None,
          raised |-> TRUE, fetched |-> TRUE]
    ELSE IF resp.status_code = StatusOk
    THEN [files |-> fs \cup {file_path}, path |-> file_path,
          raised |-> FALSE, fetched |-> TRUE]
    ELSE [files |-> fs, path |-> Placeholder, raised |-> FALSE, fetched |-> TRUE]

\* resp = [raises, status_code, stream_raises]: the outcome of the photo
\* request; stream_raises is an exception out of iter_content at line 193,
\* after open() at line 192 has created the file, which stays on disk.  The
\* result carries the files afterwards, the path returned, whether the call
\* raised and whether it issued a request.
download_photo(fs, photo_ref, place_id, resp) ==
    LET file_path == PhotoFile(place_id) IN
    IF file_path \in fs
    THEN [files |-> fs, path |-> file_path, raised |-> FALSE, fetched |-> FALSE]
    ELSE IF ~TruthyStr(photo_ref)
    THEN [files |-> fs \cup {Placeholder}, path |-> Placeholder,
          raised |-> FALSE, fetched |-> FALSE]
    ELSE IF resp.raises
    THEN [files |-> fs, path |-> None, raised |-> TRUE, fetched |-> TRUE]
    ELSE IF resp.status_code = StatusOk /\ resp.stream_raises
    THEN [files |-> fs \cup {file_path}, path |-> None,
          raised |-> TRUE, fetched |-> TRUE]
    ELSE IF resp.status_code = StatusOk
    THEN [files |-> fs \cup {file_path}, path |-> file_path,
          raised |-> FALSE, fetched |-> TRUE]
    ELSE [files |-> fs, path |-> Placeholder, raised |-> FALSE, fetched |-> TRUE]

--------------------------------------------------------------------------
(* main: the merge of one record, lines 318-366 *)

\* photos is a list of dicts; the reference of the first one, if any
PhotoRef(it, det) ==
    IF GetList(det, "photos") # <<>>
    THEN Get(GetList(det, "photos")[1], "photo_reference")
    ELSE IF GetList(it, "photos") # <<>>
    THEN Get(GetList(it, "photos")[1], "photo_reference")
    ELSE None

\* item.get("geometry", {}).get("location", {}).get(axis)
Coordinate(it, axis) == Get(GetDict(GetDict(it, "geometry"), "location"), axis)

\* the fallback taken only for a falsy detail phone, not for the sentinel
MergedPhone_NoSentinelTest(det, yelp) ==
    LET phone == Get(det, "formatted_phone_number") IN
    IF DOMAIN yelp # {} /\ ~TruthyStr(phone)
    THEN Get(yelp, "display_phone")
    ELSE phone

\* phone after the secondary fallback of lines 331-337, before `or "N/A"`
MergedPhone(det, yelp) ==
    LET phone == Get(det, "formatted_phone_number") IN
    IF DOMAIN yelp # {} /\ (~TruthyStr(phone) \/ phone = Sentinel)
    THEN Get(yelp, "display_phone")
    ELSE phone

\* the secondary provider's website wins whenever there is a match
MergedWebsite_SecondaryFirst(det, yelp) ==
    IF DOMAIN yelp # {}
    THEN OrStr(OrStr(Get(yelp, "external_website"), Get(yelp, "url")), Get(det, "website"))
    ELSE Get(det, "website")

\* website after the secondary fallback of lines 332-342, before `or "N/A"`
MergedWebsite(det, yelp) ==
    LET website == Get(det, "website") IN
    IF DOMAIN yelp # {} /\ (~TruthyStr(website) \/ website = Sentinel)
    THEN OrStr(Get(yelp, "external_website"), Get(yelp, "url"))
    ELSE website

\* address of lines 333-344
MergedAddress(it, det, yelp) ==
    LET address == OrStr(Get(det, "formatted_address"), Get(it, "vicinity")) IN
    IF DOMAIN yelp # {} /\ ~TruthyStr(address)
    THEN Get(GetDict(yelp, "location"), "address1")
    ELSE address

\* (details.get("types") or item.get("types") or [None])[0]
MergedCategory(it, det) ==
    OrList(OrList(GetList(det, "types"), GetList(it, "types")), <<None>>)[1]

\* the dict biz of lines 346-366
MakeBiz(it, det, yelp, path) ==
    [ name |-> Get(it, "name"),
      address |-> MergedAddress(it, det, yelp),
      lat |-> Coordinate(it, "lat"),
      lon |-> Coordinate(it, "lng"),
      phone |-> OrStr(MergedPhone(det, yelp), Sentinel),
      website |-> OrStr(MergedWebsite(det, yelp), Sentinel),
      place_id |-> Get(it, "place_id"),
      category |-> MergedCategory(it, det),
      rating |-> OrNum(Get(det, "rating"), Get(it, "rating")),
      rating_count |-> OrNum(Get(det, "user_ratings_total"), Get(it, "user_ratings_total")),
      opening_hours |-> IF GetDict(det, "opening_hours") # EmptyDict
                        THEN JsonDumps(GetDict(det, "opening_hours")) ELSE None,
      photo_path |-> path,
      description |-> Get(GetDict(det, "editorial_summary"), "overview"),
      price_level |-> OrNum(Get(det, "price_level"), Get(it, "price_level")),
      maps_url |-> Get(det, "google_maps_uri"),
      yelp_id |-> IF DOMAIN yelp # {} THEN Get(yelp, "id") ELSE None,
      yelp_url |-> IF DOMAIN yelp # {} THEN Get(yelp, "url") ELSE None,
      price |-> IF DOMAIN yelp # {} THEN Get(yelp, "price") ELSE None ]

--------------------------------------------------------------------------
(* The store: tables businesses, google_reviews, deals, business_extras *)

\* businesses and extras are sets of rows, reviews and deals are sequences in
\* insertion order, next_id is the next value of the businesses id sequence.
EmptyStore ==
    [ businesses |-> {}, reviews |-> <<>>, deals |-> <<>>, extras |-> {},
      next_id |-> 1 ]

\* the columns upsert_business writes, from the parameter tuple of lines 236-241
BusinessRow(id, data) ==
    [ id |-> id,
      name |-> Get(data, "name"), category |-> Get(data, "category"),
      address |-> Get(data, "address"), lat |-> Get(data, "lat"),
      lon |-> Get(data, "lon"), phone |-> Get(data, "phone"),
      website |-> Get(data, "website"),
      google_place_id |-> Get(data, "place_id"),
      rating |-> Get(data, "rating"), rating_count |-> Get(data, "rating_count"),
      opening_hours |-> Get(data, "opening_hours"),
      photo_path |-> Get(data, "photo_path"),
      description |-> Get(data, "description"),
      price_level |-> Get(data, "price_level"), maps_url |-> Get(data, "maps_url"),
      yelp_id |-> Get(data, "yelp_id"), yelp_url |-> Get(data, "yelp_url"),
      price |-> Get(data, "price") ]

\* the rows the INSERT conflicts with on google_place_id
Conflicting(store, data) ==
    {r \in store.businesses : r.google_place_id = Get(data, "place_id")}

\* INSERT always appends a row: the statement without its ON CONFLICT clause
upsert_business_NoConflict(store, data) ==
    [ store |-> [store EXCEPT
                    !.businesses = @ \cup {BusinessRow(store.next_id, data)},
                    !.next_id = @ + 1],
      id |-> store.next_id ]

\* a conflicting row is replaced by a newly numbered one, as by a delete
\* followed by an insert
upsert_business_NewIdOnConflict(store, data) ==
    [ store |-> [store EXCEPT
                    !.businesses = (@ \ Conflicting(store, data))
                                      \cup {BusinessRow(store.next_id, data)},
                    !.next_id = @ + 1],
      id |-> store.next_id ]

\* INSERT ... ON CONFLICT (google_place_id) DO UPDATE SET ... RETURNING id:
\* the new store and the id returned.  The default of the id column is taken
\* from its sequence before the conflict is seen, so a conflicting insert
\* uses up a value of the sequence too.
upsert_business(store, data) ==
    IF Conflicting(store, data) = {}
    THEN [ store |-> [store EXCEPT
                         !.businesses = @ \cup {BusinessRow(store.next_id, data)},
                         !.next_id = @ + 1],
           id |-> store.next_id ]
    ELSE LET old == CHOOSE r \in Conflicting(store, data) : TRUE IN
         [ store |-> [store EXCEPT
                         !.businesses = (@ \ {old}) \cup {BusinessRow(old.id, data)},
                         !.next_id = @ + 1],
           id |-> old.id ]

ReviewRow(bid, r) ==
    [ business_id |-> bid, author_name |-> Get(r, "author_name"),
      rating |-> Get(r, "rating"), text |-> Get(r, "text"),
      relative_time |-> Get(r, "relative_time_description") ]

\* one INSERT per element of reviews, without the slice
insert_reviews_NoCap(store, bid, reviews) ==
    IF reviews = <<>> THEN store
    ELSE [store EXCEPT !.reviews =
              @ \o [i \in 1..Len(reviews) |-> ReviewRow(bid, reviews[i])]]

\* one INSERT per element of reviews[:5], in list order
insert_reviews(store, bid, reviews) ==
    IF reviews = <<>> THEN store
    ELSE [store EXCEPT !.reviews =
              @ \o [i \in 1..Len(Take(reviews, ReviewCap)) |-> ReviewRow(bid, reviews[i])]]

\* sample_deals.get(category, "Exclusive Local Deal")
DealText(category) ==
    CASE category = "restaurant" -> "10% off your first order!"
      [] category = "cafe" -> "Buy 1 Get 1 Free Latte"
      [] category = "gym" -> "Free first week membership"
      [] category = "store" -> "20% off all products this week"
      [] OTHER -> "Exclusive Local Deal"

insert_deal(store, bid, category) ==
    [store EXCEPT !.deals = Append(@,
        [ business_id |-> bid, title |-> "Special Offer",
          description |-> DealText(category),
          valid_from |-> Today, valid_until |-> Today + DealDays ])]

\* a plain INSERT: the statement without its ON CONFLICT clause
insert_extras_NoConflict(store, bid, extras) ==
    IF DOMAIN extras = {} THEN store
    ELSE [store EXCEPT !.extras =
            @ \cup {[ business_id |-> bid,
                      meta_description |-> Get(extras, "meta_description"),
                      menu_links |-> GetList(extras, "menu_links") ]}]

\* INSERT ... ON CONFLICT (business_id) DO UPDATE; nothing for falsy extras
insert_extras(store, bid, extras) ==
    IF DOMAIN extras = {} THEN store
    ELSE [store EXCEPT !.extras =
              {e \in @ : e.business_id # bid} \cup
              {[ business_id |-> bid,
                 meta_description |-> Get(extras, "meta_description"),
                 menu_links |-> GetList(extras, "menu_links") ]}]

--------------------------------------------------------------------------
(* The providers' data the run can meet *)

PlaceIds == {"p1", "p2", "p3"}

\* the longest result list of one search response
MaxResults == 2

YELP_KEY == "yelp-key"

Review(author, stars) ==
    [ author_name |-> author, rating |-> stars, text |-> "text of " \o author,
      relative_time_description |-> "a week ago" ]

\* the bare search result of a place
ItemOf(p) ==
    CASE p = "p1" ->
           [ place_id |-> p, name |-> "Cafe One", vicinity |-> "1 Main St",
             types |-> <<"cafe", "food">>, rating |-> "4.1",
             user_ratings_total |-> "10", price_level |-> "2",
             photos |-> <<[photo_reference |-> "ref-item-p1"]>>,
             geometry |-> [location |-> [lat |-> "47.76", lng |-> "-122.20"]] ]
      [] p = "p2" ->
           [ place_id |-> p, name |-> "Gym Two", types |-> <<"gym">>,
             rating |-> "3.0",
             geometry |-> [location |-> [lat |-> "47.75", lng |-> "-122.21"]] ]
      [] OTHER ->
           [ place_id |-> p, name |-> "Shop Three", vicinity |-> "3 Pine Ave",
             types |-> <<"store">>, rating |-> "2.5", user_ratings_total |-> "7",
             photos |-> <<EmptyDict>> ]

\* results main skips: one without place_id, one without name
ItemNoId == [ name |-> "Nameless Id", vicinity |-> "0 Nowhere" ]

ItemNoName == [ place_id |-> "p2", vicinity |-> "2 Oak St" ]

ItemPool == {ItemOf(p) : p \in PlaceIds} \cup {ItemNoId, ItemNoName}

\* the "result" of a details response that carries one
DetailOf(p) ==
    CASE p = "p1" ->
           [ formatted_address |-> "1 Main Street, Bothell",
             formatted_phone_number |-> "(425) 555-0101",
             website |-> "https://one.test",
             types |-> <<"restaurant", "food">>, rating |-> "4.5",
             user_ratings_total |-> "120",
             reviews |-> <<Review("ann", "5"), Review("bob", "4")>>,
             opening_hours |-> [open_now |-> "true"],
             photos |-> <<[photo_reference |-> "ref-detail-p1"]>>,
             price_level |-> "3",
             editorial_summary |-> [overview |-> "Cosy corner cafe"],
             google_maps_uri |-> "https://maps.test/p1" ]
      [] p = "p2" ->
           [ formatted_address |-> "2 Oak Street, Bothell",
             website |-> Sentinel,
             reviews |-> <<Review("cy", "3")>> ]
      [] OTHER ->
           [ types |-> <<"book_store">>, rating |-> "0" ]

\* the responses of the secondary provider for a name
YelpSearchOf(name) ==
    CASE name = "Cafe One" ->
           [ raises |-> FALSE,
             businesses |-> <<[id |-> "yelp-1", name |-> "Cafe One",
                               display_phone |-> "(425) 555-0199"]>> ]
      [] name = "Gym Two" ->
           [ raises |-> FALSE,
             businesses |-> <<[id |-> "yelp-2", name |-> "Gym 2"]>> ]
      [] OTHER -> [ raises |-> FALSE, businesses |-> <<>> ]

YelpInfoOf(name) ==
    CASE name = "Cafe One" ->
           [ raises |-> FALSE,
             json |-> [ url |-> "https://yelp.test/one", price |-> "$$",
                        location |-> [address1 |-> "1 Main"],
                        website |-> "https://one-yelp.test" ] ]
      [] OTHER ->
           [ raises |-> FALSE,
             json |-> [ url |-> "https://yelp.test/two",
                        display_phone |-> "(425) 555-0200",
                        location |-> [address1 |-> "2 Oak"],
                        attributes |-> [business_website |-> "https://two.test"] ] ]

\* requests.get or raise_for_status raised: a transport error or a status
\* that is not a success
RaisingResponse == [ raises |-> TRUE ]

\* a search that matched nothing, and one whose hit lacks "id"
NoHitResponse == [ raises |-> FALSE, businesses |-> <<>> ]

MalformedHitResponse ==
    [ raises |-> FALSE, businesses |-> <<[name |-> "Hit Without Id"]>> ]

\* line 69: os.getenv gives None when the key is not configured
YelpKeys == {None, YELP_KEY}

\* the outcomes of the two requests of get_yelp_business for a name
YelpSearches(name) ==
    {YelpSearchOf(name), RaisingResponse, NoHitResponse, MalformedHitResponse}

YelpInfos(name) == {YelpInfoOf(name), RaisingResponse}

\* the outcomes of the page request of scrape_website
PageResponses ==
    { [ raises |-> TRUE, status_code |-> 0, meta |-> None, hrefs |-> <<>> ],
      [ raises |-> FALSE, status_code |-> 404, meta |-> None, hrefs |-> <<>> ],
      [ raises |-> FALSE, status_code |-> StatusOk, meta |-> "We serve food",
        hrefs |-> <<"/about", "/menu", "/MENU.pdf", "/our-Menus", "/menu/lunch">> ] }

\* the outcomes of the photo request of download_photo
PhotoResponses ==
    { [ raises |-> TRUE, status_code |-> 0, stream_raises |-> FALSE ],
      [ raises |-> FALSE, status_code |-> StatusOk, stream_raises |-> FALSE ],
      [ raises |-> FALSE, status_code |-> StatusOk, stream_raises |-> TRUE ],
      [ raises |-> FALSE, status_code |-> 404, stream_raises |-> FALSE ] }

\* the outcomes of one details request: an exception, no result, a result
DetailResponses(p) ==
    { [ raises |-> TRUE, result |-> EmptyDict ],
      [ raises |-> FALSE, result |-> EmptyDict ],
      [ raises |-> FALSE, result |-> DetailOf(p) ] }

\* all sequences over S of length at most n
RECURSIVE SeqsUpTo(_, _)
SeqsUpTo(S, n) ==
    IF n = 0 THEN {<<>>}
    ELSE LET shorter == SeqsUpTo(S, n - 1) IN
         shorter \cup {Append(q, x) : q \in shorter, x \in S}

\* the responses of get_places that do not raise
SearchResponses ==
    { [ results |-> r, next_page_token |-> t ] :
        r \in SeqsUpTo(ItemPool, MaxResults), t \in {None, "token"} }

NoCalls ==
    [ search |-> 0, last_search |-> [place_type |-> None, pagetoken |-> None],
      details |-> [p \in PlaceIds |-> 0], photo |-> [p \in PlaceIds |-> 0],
      yelp |-> [p \in PlaceIds |-> 0], scrape |-> [p \in PlaceIds |-> 0],
      upsert |-> [p \in PlaceIds |-> 0] ]

\* a store an earlier, committed run left behind: p1 ingested with no detail,
\* no secondary match and no photo
PriorStore ==
    LET b  == MakeBiz(ItemOf("p1"), EmptyDict, EmptyDict, Placeholder)
        up == upsert_business(EmptyStore, b)
    IN insert_deal(up.store, up.id, b.category)

--------------------------------------------------------------------------
(* main *)

\* the locals of one loop iteration; main assigns each before it reads it, so
\* the model clears them when the iteration ends
locals == <<item, attempt, details, photo_path, yelp_data, biz, business_id>>

ClearLocals ==
    /\ item' = EmptyDict
    /\ attempt' = 0
    /\ details' = EmptyDict
    /\ photo_path' = None
    /\ yelp_data' = EmptyDict
    /\ biz' = EmptyDict
    /\ business_id' = 0

Init ==
    /\ pc = "for_type"
    /\ type_idx = 1
    /\ total_inserted = 0
    /\ seen = {}
    /\ res = [results |-> <<>>, next_page_token |-> None]
    /\ item = EmptyDict
    /\ attempt = 0
    /\ details = EmptyDict
    /\ photo_path = None
    /\ yelp_data = EmptyDict
    /\ biz = EmptyDict
    /\ business_id = 0
    /\ committed \in {EmptyStore, PriorStore}
    /\ db = committed
    /\ files = {}
    /\ calls = NoCalls
    /\ failure = None
    /\ log = <<>>

\* an exception leaves main: conn.commit() is never reached, and the open
\* transaction of the connection is dropped with the process
Abort(cause) ==
    /\ pc' = "aborted"
    /\ failure' = cause
    /\ UNCHANGED <<type_idx, total_inserted, seen, res, locals, db,
                   committed, files, log>>

\* the test of lines 304, 376 and 380 (the source's literal is 100)
AtTarget_OffByOne(n) == n > TargetCount

AtTarget(n) == n >= TargetCount

\* line 313: without a place id, without a name, or already seen
SkipItem_NoSeen(it, seen_ids) ==
    ~TruthyStr(Get(it, "place_id")) \/ ~TruthyStr(Get(it, "name"))

SkipItem(it, seen_ids) ==
    \/ ~TruthyStr(Get(it, "place_id"))
    \/ ~TruthyStr(Get(it, "name"))
    \/ Get(it, "place_id") \in seen_ids

\* lines 303-305: the next category, unless the list or the target is exhausted
ForPlaceType ==
    /\ pc = "for_type"
    /\ pc' = IF type_idx <= Len(PLACE_TYPES) /\ ~AtTarget(total_inserted)
             THEN "get_places" ELSE "commit"
    /\ UNCHANGED <<type_idx, total_inserted, seen, res, locals, db,
                   committed, files, calls, failure, log>>

\* line 308: get_places(CENTER_LAT, CENTER_LON, radius=10000,
\* place_type=place_type); pagetoken keeps its default, None
GetPlaces ==
    /\ pc = "get_places"
    /\ calls' = [calls EXCEPT
                    !.search = @ + 1,
                    !.last_search = [place_type |-> PLACE_TYPES[type_idx],
                                     pagetoken |-> None]]
    /\ \/ Abort("get_places")
       \/ /\ \E r \in SearchResponses : res' = r
          /\ pc' = "for_item"
          /\ UNCHANGED <<type_idx, total_inserted, seen, locals, db, committed,
                         files, failure, log>>

\* lines 310-317: the next result; skipped without a place id, without a name
\* or with a place id already seen; otherwise place_details is called
ForItem ==
    /\ pc = "for_item"
    /\ IF res.results = <<>>
       THEN /\ pc' = "after_items"
            /\ UNCHANGED <<res, seen, locals, calls>>
       ELSE LET it  == Head(res.results)
                pid == Get(it, "place_id")
            IN /\ res' = [res EXCEPT !.results = Tail(@)]
               /\ IF SkipItem(it, seen)
                  THEN /\ pc' = "for_item"
                       /\ UNCHANGED <<seen, locals, calls>>
                  ELSE /\ pc' = "place_details"
                       /\ seen' = seen \cup {pid}
                       /\ item' = it
                       /\ attempt' = 0
                       /\ calls' = [calls EXCEPT !.details[pid] = @ + 1]
                       /\ UNCHANGED <<details, photo_path, yelp_data, biz, business_id>>
    /\ UNCHANGED <<type_idx, total_inserted, db, committed, files, failure, log>>

\* the loop taking one pass more than `retries`
LoopExhausted_OneMore(passes) == passes > Retries

\* line 110: for i in range(retries) ends after `retries` passes
LoopExhausted(passes) == passes >= Retries

\* lines 110-121: one pass of the retry loop of place_details
PlaceDetails ==
    /\ pc = "place_details"
    /\ \E resp \in DetailResponses(item.place_id) :
          IF ~resp.raises /\ DOMAIN resp.result # {}
          THEN /\ details' = resp.result
               /\ attempt' = attempt + 1
               /\ pc' = "download_photo"
          ELSE /\ attempt' = attempt + 1
               /\ details' = EmptyDict
               /\ pc' = IF LoopExhausted(attempt + 1) THEN "download_photo"
                        ELSE "place_details"
    /\ UNCHANGED <<type_idx, total_inserted, seen, res, item, photo_path,
                   yelp_data, biz, business_id, db, committed, files, calls,
                   failure, log>>

\* lines 318-325
DownloadPhoto ==
    /\ pc = "download_photo"
    /\ calls' = [calls EXCEPT !.photo[item.place_id] = @ + 1]
    /\ \E resp \in PhotoResponses :
          LET out == download_photo(files, PhotoRef(item, details), item.place_id, resp)
          IN IF out.raised
             THEN /\ pc' = "aborted"
                  /\ failure' = "download_photo"
                  /\ files' = out.files
                  /\ UNCHANGED <<type_idx, total_inserted, seen, res, locals,
                                 db, committed, log>>
             ELSE /\ files' = out.files
                  /\ photo_path' = out.path
                  /\ pc' = "get_yelp_business"
                  /\ UNCHANGED <<type_idx, total_inserted, seen, res, item,
                                 attempt, details, yelp_data, biz, business_id, db,
                                 committed, failure, log>>

\* lines 328-330
GetYelpBusiness ==
    /\ pc = "get_yelp_business"
    /\ calls' = [calls EXCEPT !.yelp[item.place_id] = @ + 1]
    /\ \E yelp_key \in YelpKeys, search \in YelpSearches(item.name),
          info \in YelpInfos(item.name) :
          yelp_data' = get_yelp_business(yelp_key, search, info)
    /\ pc' = "upsert_business"
    /\ UNCHANGED <<type_idx, total_inserted, seen, res, item, attempt,
                   details, photo_path, biz, business_id, db, committed, files,
                   failure, log>>

\* lines 331-368: the merge and the upsert
UpsertBusiness ==
    /\ pc = "upsert_business"
    /\ LET b   == MakeBiz(item, details, yelp_data, photo_path)
           out == upsert_business(db, b)
       IN /\ biz' = b
          /\ db' = out.store
          /\ business_id' = out.id
    /\ calls' = [calls EXCEPT !.upsert[item.place_id] = @ + 1]
    /\ pc' = "scrape_website"
    /\ UNCHANGED <<type_idx, total_inserted, seen, res, item, attempt,
                   details, photo_path, yelp_data, committed, files, failure, log>>

\* lines 369-371
ScrapeWebsite ==
    /\ pc = "scrape_website"
    /\ calls' = [calls EXCEPT !.scrape[item.place_id] = @ + 1]
    /\ \E resp \in PageResponses :
          LET extras == scrape_website(biz.website, resp)
          IN db' = IF DOMAIN extras # {}
                   THEN insert_extras(db, business_id, extras) ELSE db
    /\ pc' = "insert_reviews"
    /\ UNCHANGED <<type_idx, total_inserted, seen, res, locals, committed,
                   files, failure, log>>

\* line 372
InsertReviews ==
    /\ pc = "insert_reviews"
    /\ db' = insert_reviews(db, business_id, GetList(details, "reviews"))
    /\ pc' = "insert_deal"
    /\ UNCHANGED <<type_idx, total_inserted, seen, res, locals, committed,
                   files, calls, failure, log>>

\* lines 373-378: the offer, the counter, and the break at the target
InsertDeal ==
    /\ pc = "insert_deal"
    /\ db' = insert_deal(db, business_id, biz.category)
    /\ total_inserted' = total_inserted + 1
    /\ pc' = IF AtTarget(total_inserted + 1) THEN "after_items" ELSE "for_item"
    /\ ClearLocals
    /\ UNCHANGED <<type_idx, seen, res, committed, files, calls,
                   failure, log>>

\* lines 380-382: after the results of a category
AfterItems ==
    /\ pc = "after_items"
    /\ IF AtTarget(total_inserted)
       THEN /\ pc' = "commit"
            /\ UNCHANGED type_idx
       ELSE /\ pc' = "for_type"
            /\ type_idx' = type_idx + 1
    /\ UNCHANGED <<total_inserted, seen, res, locals, db, committed,
                   files, calls, failure, log>>

\* lines 384-385
Commit ==
    /\ pc = "commit"
    /\ committed' = db
    /\ pc' = "done"
    /\ UNCHANGED <<type_idx, total_inserted, seen, res, locals, db,
                   files, calls, failure, log>>

Next ==
    \/ ForPlaceType
    \/ GetPlaces
    \/ ForItem
    \/ PlaceDetails
    \/ DownloadPhoto
    \/ GetYelpBusiness
    \/ UpsertBusiness
    \/ ScrapeWebsite
    \/ InsertReviews
    \/ InsertDeal
    \/ AfterItems
    \/ Commit

Spec == Init /\ [][Next]_vars

--------------------------------------------------------------------------
(* Claims about the run, checked under Spec *)

RECURSIVE SumOver(_, _)
SumOver(f, S) ==
    IF S = {} THEN 0
    ELSE LET x == CHOOSE y \in S : TRUE IN f[x] + SumOver(f, S \ {x})

RowsOf(store, p) == {r \in store.businesses : r.google_place_id = p}

AfterUpsert == pc \in {"scrape_website", "insert_reviews", "insert_deal"}

\* the next result of the list is one the run has already taken
NextIsSeen ==
    /\ pc = "for_item"
    /\ res.results # <<>>
    /\ TruthyStr(Get(Head(res.results), "place_id"))
    /\ TruthyStr(Get(Head(res.results), "name"))
    /\ Get(Head(res.results), "place_id") \in seen

\* C2: within one run every place id gets at most one place_details call and
\* at most one upsert_business call (and so at most one photo, secondary
\* lookup and scrape call), and a result whose id is already in seen is
\* skipped with no call and no write.
C2_DedupWithinRun ==
    /\ [](\A p \in PlaceIds :
            /\ calls.details[p] <= 1
            /\ calls.upsert[p] <= 1
            /\ calls.photo[p] <= 1
            /\ calls.yelp[p] <= 1
            /\ calls.scrape[p] <= 1)
    /\ [][NextIsSeen =>
            /\ calls' = calls
            /\ db' = db
            /\ files' = files
            /\ seen' = seen
            /\ pc' = "for_item"]_vars

\* C2 witness: in the second category, the next result is a place that was
\* already detail-fetched and upserted once in this run
C2_Witness ==
    /\ NextIsSeen
    /\ type_idx = 2
    /\ calls.details[Get(Head(res.results), "place_id")] = 1
    /\ calls.upsert[Get(Head(res.results), "place_id")] = 1

\* C3: the number of businesses upserted never exceeds the target; once the
\* counter is at the target no search, detail, photo, secondary, scrape or
\* store call follows; and a run that ends below the target has visited every
\* category and upserted every distinct valid record the searches returned.
C3_TargetTruncation ==
    /\ [](/\ total_inserted <= TargetCount
          /\ SumOver(calls.upsert, PlaceIds) <= TargetCount)
    /\ [][total_inserted >= TargetCount =>
            /\ calls' = calls
            /\ db' = db
            /\ files' = files
            /\ total_inserted' = total_inserted]_vars
    /\ [](pc = "done" =>
            \/ total_inserted = TargetCount
            \/ /\ type_idx > Len(PLACE_TYPES)
               /\ total_inserted = Cardinality(seen))

\* C3 witness: the run is over with exactly the target upserted while results
\* of the category it stopped in were never taken
C3_Witness ==
    /\ pc = "done"
    /\ total_inserted = TargetCount
    /\ SumOver(calls.upsert, PlaceIds) = TargetCount
    /\ res.results # <<>>

\* the detail record of the current item is unusable: place_details gave {}
\* after all its attempts, or it gave a result that carries neither an
\* address nor a website
DetailUnusable ==
    /\ pc \in {"download_photo", "get_yelp_business", "upsert_business"}
          \cup {"scrape_website", "insert_reviews", "insert_deal"}
    /\ "formatted_address" \notin DOMAIN details
    /\ "website" \notin DOMAIN details

BareCategory(it) ==
    IF GetList(it, "types") # <<>> THEN GetList(it, "types")[1] ELSE None

\* the fields C4 names, taken from the bare result
BareFields(r, it) ==
    /\ r.name = Get(it, "name")
    /\ r.address = Get(it, "vicinity")
    /\ r.lat = Coordinate(it, "lat")
    /\ r.lon = Coordinate(it, "lng")
    /\ r.category = BareCategory(it)
    /\ r.rating = Get(it, "rating")
    /\ r.rating_count = Get(it, "user_ratings_total")
    /\ r.price_level = Get(it, "price_level")

\* C4: if the detail fetch for a record is incomplete or fails on all 3
\* attempts, the run does not abort: every step of the record leads to the
\* next one, the record is upserted with name, address, location, category,
\* rating, rating count and price level taken from the bare search result
\* only, and total_inserted is incremented by one for it.
C4_DegradedStillUpserted ==
    /\ []((DetailUnusable /\ AfterUpsert) =>
            /\ Cardinality(RowsOf(db, item.place_id)) = 1
            /\ \A r \in RowsOf(db, item.place_id) : BareFields(r, item))
    /\ [][DetailUnusable =>
            /\ pc' # "aborted"
            /\ pc = "insert_deal" => total_inserted' = total_inserted + 1]_vars

\* C8: when a search response carries a next-page token and the target is
\* not reached, the next search is for the same category and submits that
\* token.
C8_Pagination ==
    [][(/\ calls'.search = calls.search + 1
        /\ TruthyStr(res.next_page_token)
        /\ total_inserted < TargetCount) =>
            calls'.last_search =
                [ place_type |-> calls.last_search.place_type,
                  pagetoken |-> res.next_page_token ]]_vars

\* C9: after a search failure has aborted the run, the store holds the
\* business, review, offer and extras writes of the records processed before.
C9_WritesRetained ==
    (pc = "aborted" /\ failure = "get_places") =>
        /\ committed.businesses = db.businesses
        /\ committed.reviews = db.reviews
        /\ committed.deals = db.deals
        /\ committed.extras = db.extras

\* C10: whatever the photo request does, download_photo returns the cached
\* path of the place or the placeholder path and the run goes on with the
\* record.
C10_PhotoNeverAborts ==
    [][pc = "download_photo" =>
          /\ pc' = "get_yelp_business"
          /\ photo_path' \in {PhotoFile(item.place_id), Placeholder}]_vars

--------------------------------------------------------------------------
(* Specifications that call one function at a time *)

\* the longest sequence of calls
MaxCalls == 3

\* the longest sequence of calls on the store
MaxStoreCalls == 4

\* the longest review list passed to insert_reviews
MaxReviews == 6

\* the variables of main that these specifications leave alone
MainIdle ==
    /\ type_idx = 1
    /\ total_inserted = 0
    /\ seen = {}
    /\ res = [results |-> <<>>, next_page_token |-> None]
    /\ attempt = 0
    /\ business_id = 0
    /\ calls = NoCalls
    /\ failure = None
    /\ log = <<>>

mainVars == <<type_idx, total_inserted, seen, res, attempt, business_id, calls,
              failure>>

(* SpecStore: any sequence of upsert_business, insert_extras, insert_deal *)

BizPool ==
    { MakeBiz(ItemOf(p), d, EmptyDict, Placeholder) :
        p \in {"p1", "p2"}, d \in {EmptyDict, DetailOf("p1")} }

\* the pages of the scrape, one of them without description and menu links
StorePages ==
    PageResponses
    \cup { [ raises |-> FALSE, status_code |-> StatusOk, meta |-> None,
             hrefs |-> <<"/about">> ] }

\* what main passes to insert_extras: the results of scrape_website
ExtrasPool == { scrape_website("https://one.test", resp) : resp \in StorePages }

InitStore ==
    /\ MainIdle
    /\ pc = "store"
    /\ db = EmptyStore
    /\ committed = EmptyStore
    /\ files = {}
    /\ item = EmptyDict
    /\ details = EmptyDict
    /\ yelp_data = EmptyDict
    /\ photo_path = None
    /\ biz = EmptyDict

StoreUpsert ==
    /\ pc = "store"
    /\ Len(log) < MaxStoreCalls
    /\ \E data \in BizPool :
          LET out == upsert_business(db, data)
          IN /\ db' = out.store
             /\ log' = Append(log, [op |-> "upsert_business", data |-> data,
                                    id |-> out.id])
    /\ UNCHANGED <<pc, mainVars, committed, files, item, details, yelp_data,
                   photo_path, biz>>

StoreInsertExtras ==
    /\ pc = "store"
    /\ Len(log) < MaxStoreCalls
    /\ \E r \in db.businesses, ex \in ExtrasPool :
          /\ db' = insert_extras(db, r.id, ex)
          /\ log' = Append(log, [op |-> "insert_extras", business_id |-> r.id,
                                 extras |-> ex])
    /\ UNCHANGED <<pc, mainVars, committed, files, item, details, yelp_data,
                   photo_path, biz>>

StoreInsertDeal ==
    /\ pc = "store"
    /\ Len(log) < MaxStoreCalls
    /\ \E r \in db.businesses :
          /\ db' = insert_deal(db, r.id, r.category)
          /\ log' = Append(log, [op |-> "insert_deal", business_id |-> r.id,
                                 category |-> r.category])
    /\ UNCHANGED <<pc, mainVars, committed, files, item, details, yelp_data,
                   photo_path, biz>>

NextStore == StoreUpsert \/ StoreInsertExtras \/ StoreInsertDeal

SpecStore == InitStore /\ [][NextStore]_vars

(* SpecReviews: any sequence of insert_reviews calls for one business *)

Authors == <<"ann", "bob", "cy", "dee", "eve", "fay", "gus", "hal">>

\* lists of 0..MaxReviews reviews by different authors, in two orders
ReviewLists ==
    { [i \in 1..n |-> Review(Authors[i], "5")] : n \in 0..MaxReviews } \cup
    { [i \in 1..n |-> Review(Authors[n + 1 - i], "2")] : n \in 0..MaxReviews }

StoreWithBusiness == upsert_business(EmptyStore, MakeBiz(ItemOf("p1"), EmptyDict, EmptyDict, Placeholder)).store

InitReviews ==
    /\ MainIdle
    /\ pc = "reviews"
    /\ db \in { StoreWithBusiness,
                insert_reviews(StoreWithBusiness, 1, <<Review("zoe", "1")>>) }
    /\ committed = EmptyStore
    /\ files = {}
    /\ item = EmptyDict
    /\ details = EmptyDict
    /\ yelp_data = EmptyDict
    /\ photo_path = None
    /\ biz = EmptyDict

ReviewsCall ==
    /\ pc = "reviews"
    /\ Len(log) < MaxCalls
    /\ \E r \in db.businesses, reviews \in ReviewLists :
          /\ db' = insert_reviews(db, r.id, reviews)
          /\ log' = Append(log, [op |-> "insert_reviews", business_id |-> r.id,
                                 reviews |-> reviews, before |-> db.reviews])
    /\ UNCHANGED <<pc, mainVars, committed, files, item, details, yelp_data,
                   photo_path, biz>>

NextReviews == ReviewsCall

SpecReviews == InitReviews /\ [][NextReviews]_vars

(* SpecPhoto: any sequence of download_photo calls, from any cache state *)

PhotoPlaces == {"p1", "p2"}

PhotoRefs == {None, "", "ref-a", "ref-b"}

InitPhoto ==
    /\ MainIdle
    /\ pc = "photo"
    /\ files \in SUBSET ({PhotoFile(p) : p \in PhotoPlaces} \cup {Placeholder})
    /\ db = EmptyStore
    /\ committed = EmptyStore
    /\ item = EmptyDict
    /\ details = EmptyDict
    /\ yelp_data = EmptyDict
    /\ photo_path = None
    /\ biz = EmptyDict

PhotoCall ==
    /\ pc = "photo"
    /\ Len(log) < MaxCalls
    /\ \E photo_ref \in PhotoRefs, place_id \in PhotoPlaces, resp \in PhotoResponses :
          LET out == download_photo(files, photo_ref, place_id, resp)
          IN /\ files' = out.files
             /\ photo_path' = out.path
             /\ log' = Append(log, [op |-> "download_photo",
                                    photo_ref |-> photo_ref, place_id |-> place_id,
                                    before |-> files, path |-> out.path,
                                    raised |-> out.raised, fetched |-> out.fetched])
    /\ UNCHANGED <<pc, mainVars, db, committed, item, details, yelp_data, biz>>

NextPhoto == PhotoCall

SpecPhoto == InitPhoto /\ [][NextPhoto]_vars

(* SpecMerge: the merge of lines 331-366 on every combination of inputs *)

MergeItems ==
    { [place_id |-> "p1", name |-> "Cafe One"] @@ a :
        a \in {EmptyDict, [vicinity |-> "1 Main St"]} }

MergeDetails ==
    { w @@ ph @@ a :
        w \in { EmptyDict, [website |-> None], [website |-> ""],
                [website |-> Sentinel], [website |-> "https://detail.test"] },
        ph \in { EmptyDict, [formatted_phone_number |-> ""],
                 [formatted_phone_number |-> Sentinel],
                 [formatted_phone_number |-> "(425) 555-0101"] },
        a \in { EmptyDict, [formatted_address |-> "1 Main Street, Bothell"] } }

\* the JSON of the secondary provider's details response
YelpJsonPool ==
    { u @@ w @@ at @@ ph @@ loc :
        u \in { EmptyDict, [url |-> "https://yelp.test/x"] },
        w \in { EmptyDict, [website |-> "https://yelp-site.test"] },
        at \in { EmptyDict, [attributes |-> [business_website |-> "https://x.test"]],
                 [attributes |-> [business_website |-> Sentinel]] },
        ph \in { EmptyDict, [display_phone |-> "(425) 555-0200"] },
        loc \in { EmptyDict, [location |-> [address1 |-> "2 Oak"]] } }

\* what get_yelp_business can return: no match, or the match built from a hit
MergeYelp ==
    { get_yelp_business(YELP_KEY, YelpSearchOf("Gym Two"), [raises |-> FALSE, json |-> j]) :
        j \in YelpJsonPool }
    \cup { get_yelp_business(YELP_KEY, YelpSearchOf("nobody"), RaisingResponse) }

\* bare results and details that carry or lack each of rating,
\* user_ratings_total, price_level and types; numbers are decimal text
MergeRatedItems ==
    { [place_id |-> "p1", name |-> "Cafe One"] @@ r @@ c @@ pl @@ t :
        r \in { EmptyDict, [rating |-> "3.9"] },
        c \in { EmptyDict, [user_ratings_total |-> "7"] },
        pl \in { EmptyDict, [price_level |-> "1"] },
        t \in { EmptyDict, [types |-> <<"restaurant", "food">>] } }

MergeRatedDetails ==
    { r @@ c @@ pl @@ t :
        r \in { EmptyDict, [rating |-> "0"], [rating |-> "4.5"] },
        c \in { EmptyDict, [user_ratings_total |-> "0"],
                [user_ratings_total |-> "12"] },
        pl \in { EmptyDict, [price_level |-> "0"], [price_level |-> "2"] },
        t \in { EmptyDict, [types |-> <<>>], [types |-> <<"cafe", "store">>] } }

InitMerge ==
    /\ MainIdle
    /\ pc = "merge"
    /\ \/ /\ item \in MergeItems
          /\ details \in MergeDetails
          /\ yelp_data \in MergeYelp
       \/ /\ item \in MergeRatedItems
          /\ details \in MergeRatedDetails
          /\ yelp_data = EmptyDict
    /\ photo_path = Placeholder
    /\ biz = EmptyDict
    /\ db = EmptyStore
    /\ committed = EmptyStore
    /\ files = {}

Merge ==
    /\ pc = "merge"
    /\ biz' = MakeBiz(item, details, yelp_data, photo_path)
    /\ pc' = "merged"
    /\ UNCHANGED <<mainVars, log, db, committed, files, item, details, yelp_data,
                   photo_path>>

NextMerge == Merge

SpecMerge == InitMerge /\ [][NextMerge]_vars

--------------------------------------------------------------------------
(* Claims about single functions *)

UpsertCalls == {i \in 1..Len(log) : log[i].op = "upsert_business"}

UpsertedIds == {log[i].data.place_id : i \in UpsertCalls}

\* the data of the most recent upsert_business call for place id p
LastUpsert(p) ==
    LET last == CHOOSE i \in UpsertCalls :
                    /\ log[i].data.place_id = p
                    /\ \A j \in UpsertCalls : log[j].data.place_id = p => j <= i
    IN log[last].data

\* every column the ON CONFLICT clause sets equals the value in data
RowHolds(r, data) ==
    /\ r.name = data.name
    /\ r.category = data.category
    /\ r.address = data.address
    /\ r.lat = data.lat
    /\ r.lon = data.lon
    /\ r.phone = data.phone
    /\ r.website = data.website
    /\ r.rating = data.rating
    /\ r.rating_count = data.rating_count
    /\ r.opening_hours = data.opening_hours
    /\ r.photo_path = data.photo_path
    /\ r.description = data.description
    /\ r.price_level = data.price_level
    /\ r.maps_url = data.maps_url
    /\ r.yelp_id = data.yelp_id
    /\ r.yelp_url = data.yelp_url
    /\ r.price = data.price

\* C1: after any sequence of upsert_business calls the businesses table holds
\* exactly one row per place id upserted, and that row carries the values of
\* the most recent call for the place id.
C1_OneRowPerPlace ==
    /\ {r.google_place_id : r \in db.businesses} = UpsertedIds
    /\ Cardinality(db.businesses) = Cardinality(UpsertedIds)
    /\ \A p \in UpsertedIds :
          /\ Cardinality(RowsOf(db, p)) = 1
          /\ \A r \in RowsOf(db, p) : RowHolds(r, LastUpsert(p))

\* C1 witness: a place id was upserted twice with different values and the
\* table holds one row for it
C1_Witness ==
    /\ \E i, j \in UpsertCalls :
          /\ i < j
          /\ log[i].data.place_id = log[j].data.place_id
          /\ log[i].data # log[j].data
          /\ log[j].data = LastUpsert(log[j].data.place_id)
          /\ Cardinality(RowsOf(db, log[j].data.place_id)) = 1
          /\ log[i].id = log[j].id

DetailWebsite == Get(details, "website")

\* C5: with the detail website absent, empty or "N/A" and a secondary match
\* that carries an external_website, the merged website is that
\* external_website; with a real detail website the merged website is the
\* detail's, whatever the secondary match is.
C5_WebsitePrecedence ==
    pc = "merged" =>
        /\ ( /\ ~TruthyStr(DetailWebsite) \/ DetailWebsite = Sentinel
             /\ DOMAIN yelp_data # {}
             /\ TruthyStr(Get(yelp_data, "external_website")) )
              => biz.website = Get(yelp_data, "external_website")
        /\ (TruthyStr(DetailWebsite) /\ DetailWebsite # Sentinel)
              => biz.website = DetailWebsite

\* C5 witness: detail website "N/A", secondary external_website
\* "https://x.test", merged
C5_Witness ==
    /\ pc = "merged"
    /\ DetailWebsite = Sentinel
    /\ DOMAIN yelp_data # {}
    /\ Get(yelp_data, "external_website") = "https://x.test"
    /\ biz.website = "https://x.test"

\* the review rows in the table right after call i of the log
ReviewsAfter(i) == IF i < Len(log) THEN log[i + 1].before ELSE db.reviews

\* C6: a call of insert_reviews with n reviews appends exactly min(n, 5)
\* rows for the business: the first min(n, 5) reviews, in their order.
C6_ReviewCap ==
    \A i \in 1..Len(log) :
        log[i].op = "insert_reviews" =>
            LET e      == log[i]
                n      == Len(e.reviews)
                k      == IF n < 5 THEN n ELSE 5
                before == e.before
                after  == ReviewsAfter(i)
            IN /\ Len(after) = Len(before) + k
               /\ SubSeq(after, 1, Len(before)) = before
               /\ \A j \in 1..k :
                     LET row == after[Len(before) + j] IN
                     /\ row.business_id = e.business_id
                     /\ row.author_name = e.reviews[j].author_name
                     /\ row.rating = e.reviews[j].rating
                     /\ row.text = e.reviews[j].text
                     /\ row.relative_time = e.reviews[j].relative_time_description

\* C6 witness: a list of more than 5 reviews was passed and 5 rows were added
C6_Witness ==
    /\ Len(log) > 0
    /\ log[Len(log)].op = "insert_reviews"
    /\ Len(log[Len(log)].reviews) > 5
    /\ Len(db.reviews) = Len(log[Len(log)].before) + 5

PhotoCalls == {i \in 1..Len(log) : log[i].op = "download_photo"}

\* C7 as stated: without a photo reference download_photo returns the
\* placeholder path, for any place id and any state of the cache, and makes
\* no request.
C7_AlwaysPlaceholder ==
    \A i \in PhotoCalls :
        ~TruthyStr(log[i].photo_ref) =>
            /\ log[i].path = Placeholder
            /\ ~log[i].fetched

\* C7 amended: without a photo reference download_photo makes no request and
\* does not raise; it returns the placeholder path, unless an asset is
\* already cached for the place id, and then it returns that cached path.
C7_NoRefNoFetch ==
    \A i \in PhotoCalls :
        ~TruthyStr(log[i].photo_ref) =>
            /\ ~log[i].fetched
            /\ ~log[i].raised
            /\ log[i].path =
                  IF PhotoFile(log[i].place_id) \in log[i].before
                  THEN PhotoFile(log[i].place_id)
                  ELSE Placeholder

\* C7 witness: a call without a photo reference for a place with no cached
\* asset returned the placeholder, which it created
C7_Witness ==
    \E i \in PhotoCalls :
        /\ ~TruthyStr(log[i].photo_ref)
        /\ PhotoFile(log[i].place_id) \notin log[i].before
        /\ Placeholder \notin log[i].before
        /\ log[i].path = Placeholder
        /\ ~log[i].fetched

--------------------------------------------------------------------------
(* Best-effort enrichment, checked under Spec *)

\* the outcomes of the secondary lookup without a usable match: no key, a
\* request that raised (transport error or non-success status), no hit, a
\* hit without an id
YelpLookupFails(yelp_key, search, info) ==
    \/ ~TruthyStr(yelp_key)
    \/ search.raises
    \/ search.businesses = <<>>
    \/ "id" \notin DOMAIN search.businesses[1]
    \/ info.raises

\* the outcomes of the page scrape without a page: no URL, the sentinel, a
\* request that raised, a status other than 200
ScrapeFails(website_url, resp) ==
    \/ website_url \in {None, "", Sentinel}
    \/ resp.raises
    \/ resp.status_code # StatusOk

\* every failing outcome of the two collaborators is an absence value
C11_AbsenceValues ==
    /\ pc = "get_yelp_business" =>
          \A yelp_key \in YelpKeys, search \in YelpSearches(item.name),
             info \in YelpInfos(item.name) :
             YelpLookupFails(yelp_key, search, info)
                => get_yelp_business(yelp_key, search, info) = EmptyDict
    /\ pc = "scrape_website" =>
          \A website_url \in {None, "", Sentinel, biz.website},
             resp \in PageResponses :
             ScrapeFails(website_url, resp)
                => scrape_website(website_url, resp) = EmptyDict

\* from the secondary lookup on, every step of a record goes to the next one:
\* the row, the reviews and the offer are written and the record is counted
C11_RecordWritten ==
    /\ pc = "get_yelp_business" =>
          pc' = "upsert_business" /\ failure' = failure
    /\ pc = "upsert_business" =>
          /\ pc' = "scrape_website"
          /\ \E r \in RowsOf(db', item.place_id) : r.id = business_id'
    /\ pc = "scrape_website" =>
          /\ pc' = "insert_reviews"
          /\ db'.businesses = db.businesses
          /\ failure' = failure
    /\ pc = "insert_reviews" =>
          /\ pc' = "insert_deal"
          /\ Len(db'.reviews) = Len(db.reviews)
                + (IF Len(GetList(details, "reviews")) < ReviewCap
                   THEN Len(GetList(details, "reviews")) ELSE ReviewCap)
          /\ \A i \in (Len(db.reviews) + 1)..Len(db'.reviews) :
                db'.reviews[i].business_id = business_id
    /\ pc = "insert_deal" =>
          /\ Len(db'.deals) = Len(db.deals) + 1
          /\ db'.deals[Len(db'.deals)].business_id = business_id
          /\ total_inserted' = total_inserted + 1
          /\ pc' \in {"for_item", "after_items"}

\* C11: for every outcome of the secondary lookup (no key, no hit, a status
\* that is not a success, a transport error, a malformed hit) and of the page
\* scrape (missing or "N/A" URL, a status other than 200, a transport error)
\* the collaborator returns an absence value, and the record's business row,
\* reviews and offer are still written and the record is counted.
C11_EnrichmentNeverAborts ==
    [](C11_AbsenceValues) /\ [][C11_RecordWritten]_vars

\* a record with reviews whose lookup gave no match and whose page scrape of
\* a real URL gave nothing, about to receive its offer
C11_Witness ==
    /\ pc = "insert_deal"
    /\ yelp_data = EmptyDict
    /\ biz.website # Sentinel
    /\ \A e \in db.extras : e.business_id # business_id
    /\ \E r \in RowsOf(db, item.place_id) : r.id = business_id
    /\ \E i \in 1..Len(db.reviews) : db.reviews[i].business_id = business_id

--------------------------------------------------------------------------
(* The internal id of a place, checked under Spec *)

\* the business_id of every review, offer and extras row of a store
ChildIds(store) ==
    {store.reviews[i].business_id : i \in 1..Len(store.reviews)}
    \cup {store.deals[i].business_id : i \in 1..Len(store.deals)}
    \cup {e.business_id : e \in store.extras}

\* C12: upsert_business returns the same internal id for a place id on the
\* first insert and on every later conflicting update: a place id has one
\* row, the row keeps the id it had in the store the run started from, the id
\* returned is that row's id, and every review, offer and extras row
\* references exactly one business row.
C12_SameIdBothBranches ==
    /\ \A p \in PlaceIds : Cardinality(RowsOf(db, p)) <= 1
    /\ \A old \in committed.businesses :
          \E r \in RowsOf(db, old.google_place_id) : r.id = old.id
    /\ AfterUpsert => \E r \in RowsOf(db, item.place_id) : r.id = business_id
    /\ \A bid \in ChildIds(db) :
          Cardinality({r \in db.businesses : r.id = bid}) = 1

\* a place that had a row and an offer before the run has been ingested
\* again: its row has the old id, and two offers and a review reference it
C12_Witness ==
    /\ committed = PriorStore
    /\ \E old \in committed.businesses, r \in db.businesses :
          /\ r.google_place_id = old.google_place_id
          /\ r.id = old.id
          /\ calls.upsert[r.google_place_id] = 1
          /\ \E i, j \in 1..Len(db.deals) :
                i < j /\ db.deals[i].business_id = r.id
                      /\ db.deals[j].business_id = r.id
          /\ \E i \in 1..Len(db.reviews) : db.reviews[i].business_id = r.id

--------------------------------------------------------------------------
(* The counter of the summary, checked under Spec *)

\* the place ids upsert_business has been called for in this run
UpsertedPlaces == {p \in PlaceIds : calls.upsert[p] > 0}

\* C13: total_inserted equals the number of upsert_business calls that have
\* returned at every record boundary (between the upsert of a record and its
\* increment the calls are one ahead), and at normal termination it equals
\* the number of distinct place ids upserted during the run.
C13_CounterIsUpserts ==
    /\ total_inserted + (IF AfterUpsert THEN 1 ELSE 0)
          = SumOver(calls.upsert, PlaceIds)
    /\ pc = "done" => total_inserted = Cardinality(UpsertedPlaces)

\* a run that ended normally after upserting two different places
C13_Witness ==
    /\ pc = "done"
    /\ Cardinality(UpsertedPlaces) >= 2
    /\ total_inserted = SumOver(calls.upsert, PlaceIds)

--------------------------------------------------------------------------
(* The numeric fields and the category of the merge, checked under SpecMerge *)

\* the first tag of the record d when it carries a tag list that has one
FirstType(d) ==
    IF "types" \in DOMAIN d /\ d["types"] # <<>> THEN d["types"][1] ELSE None

\* the value of field `key` by the rule "detail value if the detail record
\* carries the field, else the bare result's value"
DetailElseBare(key) ==
    IF key \in DOMAIN details THEN details[key] ELSE Get(item, key)

\* C14: each of rating, rating count, price level and category of the merged
\* record equals the detail record's value whenever the detail record carries
\* the field, a 0 and an empty tag list included, and the bare result's value
\* only when the detail record does not carry it.
C14_DetailWinsWhenPresent ==
    pc = "merged" =>
       /\ biz.rating = DetailElseBare("rating")
       /\ biz.rating_count = DetailElseBare("user_ratings_total")
       /\ biz.price_level = DetailElseBare("price_level")
       /\ biz.category = IF "types" \in DOMAIN details
                         THEN FirstType(details) ELSE FirstType(item)

--------------------------------------------------------------------------
(* Phone and website of the merged record, checked under SpecMerge *)

\* a contact value that is present and is not the sentinel
RealContact(v) == TruthyStr(v) /\ v # Sentinel

DetailPhone == Get(details, "formatted_phone_number")

\* what the secondary match offers, None without a match
SecondaryPhone ==
    IF DOMAIN yelp_data # {} THEN Get(yelp_data, "display_phone") ELSE None

SecondaryWebsite ==
    IF DOMAIN yelp_data = {} THEN None
    ELSE IF TruthyStr(Get(yelp_data, "external_website"))
    THEN Get(yelp_data, "external_website")
    ELSE Get(yelp_data, "url")

\* C15: in the record passed to upsert_business, phone and website are never
\* null or empty: each is the detail value when that is present and not the
\* sentinel, else the secondary match's value when there is one, else "N/A".
C15_ContactNeverNull ==
    pc = "merged" =>
       /\ biz.phone \notin {None, ""}
       /\ biz.website \notin {None, ""}
       /\ biz.phone = IF RealContact(DetailPhone) THEN DetailPhone
                      ELSE IF TruthyStr(SecondaryPhone) THEN SecondaryPhone
                      ELSE Sentinel
       /\ biz.website = IF RealContact(DetailWebsite) THEN DetailWebsite
                        ELSE IF TruthyStr(SecondaryWebsite) THEN SecondaryWebsite
                        ELSE Sentinel

\* a detail phone of "N/A" replaced by the secondary match's phone, next to a
\* website that neither the detail nor the match carries
C15_Witness ==
    /\ pc = "merged"
    /\ DetailPhone = Sentinel
    /\ TruthyStr(SecondaryPhone)
    /\ biz.phone = SecondaryPhone
    /\ "website" \notin DOMAIN details
    /\ DOMAIN yelp_data # {}
    /\ ~TruthyStr(SecondaryWebsite)
    /\ biz.website = Sentinel

--------------------------------------------------------------------------
(* The retry loop of place_details, checked under Spec *)

\* one step of the run, seen from place_details: a pass makes one request; a
\* non-empty result is returned at once, an empty detail only after the last
\* pass, and no exception leaves the function; no other step makes a request
C16_OnePass ==
    /\ pc = "place_details" =>
          /\ attempt' = attempt + 1
          /\ failure' = failure
          /\ pc' \in {"place_details", "download_photo"}
          /\ details' # EmptyDict => pc' = "download_photo"
          /\ (pc' = "download_photo" /\ details' = EmptyDict)
                => attempt' = Retries
    /\ pc # "place_details" => attempt' \in {attempt, 0}

\* C16: place_details makes at most 3 requests for a place id: it returns
\* the first non-empty detail result without a further request, and after 3
\* empty or failing attempts it returns an empty detail and does not raise.
C16_BoundedRetries ==
    /\ [](attempt <= Retries /\ (pc = "place_details" => attempt < Retries))
    /\ [][C16_OnePass]_vars

\* place_details has returned the result of its second request, after a
\* first one that failed or was empty
C16_Witness ==
    /\ pc = "download_photo"
    /\ attempt = 2
    /\ details # EmptyDict

--------------------------------------------------------------------------
(* Incomplete detail responses, checked under Spec *)

\* C17: a detail response that carries neither an address nor a website is
\* incomplete and is retried while attempts remain, whatever else it
\* carries: a detail record taken before the last attempt has an address or
\* a website.
C17_IncompleteIsRetried ==
    (details # EmptyDict /\ attempt < Retries) =>
        \/ "formatted_address" \in DOMAIN details
        \/ "website" \in DOMAIN details

--------------------------------------------------------------------------
(* The photo cache, checked under SpecPhoto *)

\* the files of the cache right after call i of the log
FilesAfter(i) == IF i < Len(log) THEN log[i + 1].before ELSE files

\* call i downloaded the asset of its place id and stored it
StoredAsset(i) ==
    /\ log[i].fetched
    /\ ~log[i].raised
    /\ log[i].path = PhotoFile(log[i].place_id)

\* C18: once download_photo has stored an asset for a place id, every later
\* call for that place id, with any photo reference or none, returns that
\* same path, makes no request and writes nothing, and no call removes a
\* file from the cache.
C18_CacheFirst ==
    /\ \A i \in PhotoCalls : log[i].before \subseteq FilesAfter(i)
    /\ \A j \in PhotoCalls :
          PhotoFile(log[j].place_id) \in log[j].before =>
              /\ log[j].path = PhotoFile(log[j].place_id)
              /\ ~log[j].fetched
              /\ FilesAfter(j) = log[j].before
    /\ \A i, j \in PhotoCalls :
          (i < j /\ StoredAsset(i) /\ log[j].place_id = log[i].place_id) =>
              /\ log[j].path = log[i].path
              /\ ~log[j].fetched
              /\ ~log[j].raised
              /\ FilesAfter(j) = log[j].before

\* an asset stored for a place id, then a call with another photo reference
\* and a call with none for the same place id: both returned the stored path
C18_Witness ==
    \E i, j, k \in PhotoCalls :
        /\ i < j /\ j < k
        /\ StoredAsset(i)
        /\ log[j].place_id = log[i].place_id
        /\ log[k].place_id = log[i].place_id
        /\ TruthyStr(log[j].photo_ref) /\ log[j].photo_ref # log[i].photo_ref
        /\ ~TruthyStr(log[k].photo_ref)
        /\ log[j].path = log[i].path
        /\ log[k].path = log[i].path
        /\ ~log[j].fetched /\ ~log[k].fetched

\* C20: after any sequence of download_photo calls that starts from an empty
\* cache directory, every path a call returned is a file of the cache at the
\* time of the return, the placeholder path returned after a failed download
\* included.
C20_ReturnedPathExists ==
    (log # <<>> /\ log[1].before = {}) =>
        \A i \in PhotoCalls :
            ~log[i].raised => log[i].path \in FilesAfter(i)

--------------------------------------------------------------------------
(* The extras row of a business, checked under SpecStore *)

\* the extras rows of business bid
ExtrasOf(store, bid) == {e \in store.extras : e.business_id = bid}

ExtrasCalls == {i \in 1..Len(log) : log[i].op = "insert_extras"}

\* one call of the log: a scrape result is written over the one extras row
\* of its business, with at most 3 menu links; an empty scrape result, and
\* every other write, leave the extras rows as they were
C19_ExtrasStep ==
    log' # log =>
        LET call == log'[Len(log')] IN
        IF call.op = "insert_extras" /\ call.extras # EmptyDict
        THEN /\ ExtrasOf(db', call.business_id) =
                   {[ business_id |-> call.business_id,
                      meta_description |-> call.extras.meta_description,
                      menu_links |-> call.extras.menu_links ]}
             /\ Len(call.extras.menu_links) <= MenuLinkCap
             /\ \A e \in db.extras :
                   e.business_id # call.business_id => e \in db'.extras
             /\ \A e \in db'.extras :
                   e.business_id # call.business_id => e \in db.extras
        ELSE db'.extras = db.extras

\* C19: after any sequence of ingestions each business has at most one
\* extras row; a scrape that yields a result inserts or overwrites that row
\* with the new description and menu links, at most 3 of them, and a scrape
\* that yields nothing leaves the extras rows unchanged.
C19_OneExtrasRow ==
    /\ [](\A r \in db.businesses : Cardinality(ExtrasOf(db, r.id)) <= 1)
    /\ [][C19_ExtrasStep]_vars

\* the extras row of a business written twice with different scrape results
\* and then passed an empty one: the row holds the second result, 3 links
C19_Witness ==
    \E i, j, k \in ExtrasCalls :
        /\ i < j /\ j < k /\ k = Len(log)
        /\ log[j].business_id = log[i].business_id
        /\ log[k].business_id = log[i].business_id
        /\ log[i].extras # EmptyDict
        /\ log[j].extras # EmptyDict
        /\ log[j].extras # log[i].extras
        /\ log[k].extras = EmptyDict
        /\ Len(log[j].extras.menu_links) = MenuLinkCap
        /\ ExtrasOf(db, log[j].business_id) =
              {[ business_id |-> log[j].business_id,
                 meta_description |-> log[j].extras.meta_description,
                 menu_links |-> log[j].extras.menu_links ]}

====
